---- MODULE Spec2Model ----
(***************************************************************************)
(* Model of src/src/lib/dataset_startup_script.py: the run_python and     *)
(* get_docs operations of the dataset MCP server.  A get_docs call opens a *)
(* RequestLogger, logs "completed" and returns the dataset's document.  A  *)
(* run_python call opens a RequestLogger,                                  *)
(* logs "processing", parses and rewrites the submitted source, logs       *)
(* "executing", runs the compiled unit against the shared namespace        *)
(* (the module's own globals()) with the standard streams redirected,      *)
(* assembles the output string and logs the terminal status.               *)
(*                                                                         *)
(* Python strings are TLA+ strings; a source text is the sequence of its   *)
(* top-level lines.  The calls run as coroutines of one event loop: a call *)
(* gives up the loop only inside `await _hypha_server.log_event(...)`.     *)
(***************************************************************************)
EXTENDS Integers, Sequences, FiniteSets, TLC

\* ------------------------------------------------------------------------
\* Bounds of the model
\* ------------------------------------------------------------------------

\* Number of requests served in one behaviour (bounds the uuid counter).
MaxRequests == 2

\* Number of log_event calls that fail in one behaviour.
MaxRemoteFailures == 1

\* The coroutine slots of the event loop: two run_python calls can be in
\* flight at once.  A slot is free again once its call's outcome has been
\* handed to the caller.
Slots == {1, 2}

\* ------------------------------------------------------------------------
\* Python values
\* ------------------------------------------------------------------------

IntV(n) == [t |-> "int", n |-> n, s |-> ""]
StrV(s) == [t |-> "str", n |-> 0, s |-> s]
NoneV == [t |-> "none", n |-> 0, s |-> ""]
\* A live object of the service (the Logger, the connected hypha server).
ObjV(s) == [t |-> "obj", n |-> 0, s |-> s]
\* Marks a name with no binding in the namespace.
Unbound == [t |-> "unbound", n |-> 0, s |-> ""]

Digits == <<"0", "1", "2", "3", "4", "5", "6", "7", "8", "9">>

RECURSIVE IntStr(_)
IntStr(n) ==
    IF n < 0 THEN "-" \o IntStr(0 - n)
    ELSE IF n < 10 THEN Digits[n + 1]
    ELSE IntStr(n \div 10) \o Digits[(n % 10) + 1]

\* str(value), as used by the f-string replacement field {dataset_description}.
Str(v) ==
    CASE v.t = "int" -> IntStr(v.n)
      [] v.t = "str" -> v.s
      [] v.t = "none" -> "None"
      [] OTHER -> "<" \o v.s \o " object>"

\* repr(value), as used by the f-string conversion {result!r}.
Repr(v) ==
    CASE v.t = "int" -> IntStr(v.n)
      [] v.t = "str" -> "'" \o v.s \o "'"
      [] v.t = "none" -> "None"
      [] OTHER -> "<" \o v.s \o " object>"

\* ------------------------------------------------------------------------
\* Syntax trees (the ast nodes the code looks at)
\* ------------------------------------------------------------------------

Constant(v) == [k |-> "Constant", v |-> v, id |-> "", args |-> <<>>]
Name(id) == [k |-> "Name", v |-> NoneV, id |-> id, args |-> <<>>]
BinOpAdd(l, r) == [k |-> "BinOp", v |-> NoneV, id |-> "", args |-> <<l, r>>]
\* print(text) and print(text, file=sys.stderr): a call expression.
CallPrint(text, fd) == [k |-> "Call", v |-> StrV(text), id |-> fd, args |-> <<>>]

Expr(e) == [k |-> "Expr", value |-> e, target |-> "", exc |-> "", msg |-> ""]
Assign(target, e) ==
    [k |-> "Assign", value |-> e, target |-> target, exc |-> "", msg |-> ""]
Raise(exc, msg) ==
    [k |-> "Raise", value |-> Constant(NoneV), target |-> "", exc |-> exc, msg |-> msg]
Return == [k |-> "Return", value |-> Constant(NoneV), target |-> "", exc |-> "", msg |-> ""]

\* The statements of the hosted grammar that the model's scripts use, by
\* their source line.  A line that is not in the grammar does not parse.
Grammar ==
    [ln \in {"1 + 1", "x = 5", "x", "y", "print('hi')", "'hi'",
             "print('warn', file=sys.stderr)", "raise ValueError('boom')",
             "raise SystemExit", "return", "logger = None",
             "_hypha_server = None", "dataset_description = 'x'"} |->
        CASE ln = "1 + 1" -> Expr(BinOpAdd(Constant(IntV(1)), Constant(IntV(1))))
          [] ln = "x = 5" -> Assign("x", Constant(IntV(5)))
          [] ln = "x" -> Expr(Name("x"))
          [] ln = "y" -> Expr(Name("y"))
          [] ln = "print('hi')" -> Expr(CallPrint("hi", "stdout"))
          [] ln = "'hi'" -> Expr(Constant(StrV("hi")))
          [] ln = "print('warn', file=sys.stderr)" -> Expr(CallPrint("warn", "stderr"))
          [] ln = "raise ValueError('boom')" -> Raise("ValueError", "boom")
          [] ln = "raise SystemExit" -> Raise("SystemExit", "")
          [] ln = "return" -> Return
          [] ln = "logger = None" -> Assign("logger", Constant(NoneV))
          [] ln = "_hypha_server = None" -> Assign("_hypha_server", Constant(NoneV))
          [] ln = "dataset_description = 'x'" ->
                Assign("dataset_description", Constant(StrV("x")))]

\* The source texts submitted to run_python.
Sources ==
    { <<>>,
      <<"1 + 1">>,
      <<"x = 5">>,
      <<"print('hi')", "x">>,
      <<"1 +">>,
      <<"return">>,
      <<"print('hi')", "raise ValueError('boom')">>,
      <<"x = 5", "y">>,
      <<"print('hi')">>,
      <<"print('warn', file=sys.stderr)", "'hi'">>,
      <<"raise SystemExit">>,
      <<"logger = None">>,
      <<"_hypha_server = None">>,
      <<"dataset_description = 'x'">> }

\* Source texts for each combination of sections in the result string:
\* with and without text on stdout, text on stderr, a trailing expression.
SectionSources ==
    { <<"x = 5">>,
      <<"print('hi')", "x = 5">>,
      <<"print('warn', file=sys.stderr)", "x = 5">>,
      <<"print('hi')", "print('warn', file=sys.stderr)", "x = 5">>,
      <<"1 + 1">>,
      <<"print('hi')", "x">>,
      <<"print('warn', file=sys.stderr)", "'hi'">>,
      <<"print('hi')", "print('warn', file=sys.stderr)", "1 + 1">>,
      <<"print('hi')", "print('hi')">> }

\* The names of the shared namespace that the model tracks: the module
\* globals the service itself uses, the reserved result binding, and the
\* names the scripts bind.
Names == {"logger", "_hypha_server", "dataset_description", "_ai_result", "x", "y"}

\* Exception classes that derive from Exception (caught by `except Exception`).
ExceptionKinds == {"ValueError", "NameError", "TypeError", "AttributeError"}

NoExc == [kind |-> "", msg |-> ""]

\* ------------------------------------------------------------------------
\* Source Rewriter: parse_and_compile_code
\* ------------------------------------------------------------------------

Min(S) == CHOOSE m \in S : \A o \in S : m <= o

SyntaxError(msg) == [kind |-> "SyntaxError", msg |-> msg]

\* ast.parse(code, mode="exec"): the statements of the lines, or the
\* parser's SyntaxError at the first line that is not a statement.
ast_parse(code) ==
    LET bad == {i \in 1..Len(code) : code[i] \notin DOMAIN Grammar}
    IN IF bad # {}
       THEN [raised |-> SyntaxError("invalid syntax (<unknown>, line "
                                       \o IntStr(Min(bad)) \o ")"),
             body |-> <<>>]
       ELSE [raised |-> NoExc,
             body |-> [i \in 1..Len(code) |-> Grammar[code[i]]]]

\* isinstance(tree.body[-1], ast.Expr) on a non-empty body.
EndsInExpr(body) == Len(body) > 0 /\ body[Len(body)].k = "Expr"

\* Variant: the capture assignment is added after the trailing expression
\* statement instead of taking its place.
rewrite_last_appended(body) ==
    Append(body, Assign("_ai_result", body[Len(body)].value))

\* tree.body[-1] = ast.Assign(targets=[Name("_ai_result")], value=last_expr)
rewrite_last(body) ==
    [body EXCEPT ![Len(body)] = Assign("_ai_result", body[Len(body)].value)]

\* compile(tree, "<agent-code>", "exec"): rejects a top-level return.
compile(body) ==
    LET bad == {i \in 1..Len(body) : body[i].k = "Return"}
    IN IF bad # {}
       THEN [raised |-> SyntaxError("'return' outside function (<agent-code>, line "
                                       \o IntStr(Min(bad)) \o ")"),
             code_obj |-> <<>>]
       ELSE [raised |-> NoExc, code_obj |-> body]

\* Lines 137-148 on a parsed tree: detect the trailing expression, rewrite
\* it, compile.
rewrite_and_compile(tree) ==
    LET capture_result == EndsInExpr(tree.body)
        unit == compile(IF capture_result THEN rewrite_last(tree.body) ELSE tree.body)
    IN IF unit.raised # NoExc
       THEN [raised |-> unit.raised, code_obj |-> <<>>, capture_result |-> FALSE]
       ELSE [raised |-> NoExc, code_obj |-> unit.code_obj,
             capture_result |-> capture_result]

parse_and_compile_code(code) ==
    CHOOSE unit \in
      { IF tree.raised # NoExc
        THEN [raised |-> tree.raised, code_obj |-> <<>>, capture_result |-> FALSE]
        ELSE rewrite_and_compile(tree) : tree \in {ast_parse(code)} } : TRUE

\* ------------------------------------------------------------------------
\* Execution of a compiled unit: exec(code_obj, environment)
\* ------------------------------------------------------------------------
\* The interpreter state st: env, the namespace exec reads and writes;
\* sys, the current sys.stdout / sys.stderr; files, the text held by each
\* stream; raised, the exception in flight; evald, the statement
\* expressions evaluated so far, in order, each with the value it gave
\* (Unbound when the evaluation raised); done, the number of statements
\* completed.

Fault(st, kind, msg) == [st EXCEPT !.raised = [kind |-> kind, msg |-> msg]]

\* A write to the stream that sys.<fd> currently names.
Write(st, fd, text) == [st EXCEPT !.files[st.sys[fd]] = @ \o text]

RECURSIVE Eval(_, _)
Eval(e, st) ==
    CASE e.k = "Constant" -> [v |-> e.v, st |-> st]
      [] e.k = "Name" ->
            IF e.id \in DOMAIN st.env /\ st.env[e.id] # Unbound
            THEN [v |-> st.env[e.id], st |-> st]
            ELSE [v |-> NoneV,
                  st |-> Fault(st, "NameError", "name '" \o e.id \o "' is not defined")]
      [] e.k = "BinOp" ->
            LET l == Eval(e.args[1], st)
                r == Eval(e.args[2], l.st)
            IN IF l.st.raised # NoExc THEN l
               ELSE IF r.st.raised # NoExc THEN r
               ELSE IF l.v.t = "int" /\ r.v.t = "int"
               THEN [v |-> IntV(l.v.n + r.v.n), st |-> r.st]
               ELSE [v |-> NoneV,
                     st |-> Fault(r.st, "TypeError", "unsupported operand type(s) for +")]
      [] e.k = "Call" -> [v |-> NoneV, st |-> Write(st, e.id, e.v.s \o "\n")]

\* The state after the evaluation r of a statement's expression e.
Evaluated(e, r) ==
    [r.st EXCEPT !.evald =
        Append(@, [e |-> e, v |-> IF r.st.raised = NoExc THEN r.v ELSE Unbound])]

\* One top-level statement.
ExecStmt(stmt, st) ==
    CASE stmt.k = "Expr" -> Evaluated(stmt.value, Eval(stmt.value, st))
      [] stmt.k = "Assign" ->
            LET r == Eval(stmt.value, st)
            IN IF r.st.raised # NoExc THEN Evaluated(stmt.value, r)
               ELSE [Evaluated(stmt.value, r) EXCEPT !.env[stmt.target] = r.v]
      [] stmt.k = "Raise" -> Fault(st, stmt.exc, stmt.msg)
      [] OTHER -> st

\* The statements from position i on, stopping at the first fault.
RECURSIVE Run(_, _, _)
Run(code_obj, i, st) ==
    IF i > Len(code_obj) \/ st.raised # NoExc THEN st
    ELSE LET after == ExecStmt(code_obj[i], st)
         IN Run(code_obj, i + 1,
                IF after.raised = NoExc THEN [after EXCEPT !.done = @ + 1] ELSE after)

\* ------------------------------------------------------------------------
\* Execution Sandbox and Output Assembler: execute_code
\* ------------------------------------------------------------------------

RealStreams == [stdout |-> "__stdout__", stderr |-> "__stderr__"]

\* contextlib.redirect_stdout / redirect_stderr: __enter__ points sys.<fd>
\* at the new target.
redirect_enter(sys, fd, target) == [sys EXCEPT ![fd] = target]

\* Variant: the saved target is put back only when the block ends normally.
redirect_exit_unguarded(sys, fd, old_target, raised) ==
    IF raised = NoExc THEN [sys EXCEPT ![fd] = old_target] ELSE sys

\* __exit__ puts back the target saved by __enter__, on every exit path
\* (raised is the exception leaving the with block, NoExc when none).
redirect_exit(sys, fd, old_target, raised) == [sys EXCEPT ![fd] = old_target]

RECURSIVE JoinNl(_)
\* "\n".join(parts)
JoinNl(parts) ==
    IF Len(parts) = 0 THEN ""
    ELSE IF Len(parts) = 1 THEN parts[1]
    ELSE parts[1] \o "\n" \o JoinNl(Tail(parts))

\* Variant: the reserved binding is read whether or not a value was captured.
captured_result_unflagged(environment, capture_result) ==
    IF environment["_ai_result"] # Unbound THEN environment["_ai_result"] ELSE NoneV

\* environment.get("_ai_result") if capture_result else None
captured_result(environment, capture_result) ==
    IF capture_result /\ environment["_ai_result"] # Unbound
    THEN environment["_ai_result"]
    ELSE NoneV

\* Variant: the Stderr section is put before the Output section.
assemble_stderr_first(out, err, result) ==
    LET output_parts ==
            (IF err # "" THEN <<"Stderr:\n" \o err>> ELSE <<>>)
         \o (IF out # "" THEN <<"Output:\n" \o out>> ELSE <<>>)
         \o (IF result # NoneV THEN <<"Result: " \o Repr(result)>> ELSE <<>>)
    IN IF Len(output_parts) > 0 THEN JoinNl(output_parts) \o "\n" ELSE ""

\* Lines 172-180: the sections of the result string.
assemble(out, err, result) ==
    LET output_parts ==
            (IF out # "" THEN <<"Output:\n" \o out>> ELSE <<>>)
         \o (IF err # "" THEN <<"Stderr:\n" \o err>> ELSE <<>>)
         \o (IF result # NoneV THEN <<"Result: " \o Repr(result)>> ELSE <<>>)
    IN IF Len(output_parts) > 0 THEN JoinNl(output_parts) \o "\n" ELSE ""

\* Variant: exec is given a copy of the namespace, which is then dropped.
namespace_after_copy(environment, exec_globals) == environment

\* Line 166: exec writes the script's bindings into the dict it is given,
\* which is the shared namespace itself, not a copy.
namespace_after(environment, exec_globals) == exec_globals

\* execute_code(code_obj, environment, capture_result=...), with the
\* process's stream table (sys) and the text of the real streams (files).
\* When exec raises, the exception leaves the function (raised # NoExc) and
\* no output string is built.
execute_code(code_obj, environment, capture_result, sys, files) ==
    LET buffers == [f \in {"__stdout__", "__stderr__", "f_stdout", "f_stderr"} |->
                       IF f \in DOMAIN files THEN files[f] ELSE ""]
        entered == redirect_enter(redirect_enter(sys, "stdout", "f_stdout"),
                                  "stderr", "f_stderr")
        started == [env |-> environment, sys |-> entered, files |-> buffers,
                    raised |-> NoExc, evald |-> <<>>, done |-> 0]
    IN CHOOSE res \in
         { [raised |-> ran.raised,
            output |-> IF ran.raised = NoExc
                       THEN assemble(ran.files["f_stdout"], ran.files["f_stderr"],
                                     captured_result(ran.env, capture_result))
                       ELSE "",
            environment |-> namespace_after(environment, ran.env),
            sys |-> redirect_exit(redirect_exit(ran.sys, "stderr", sys.stderr, ran.raised),
                                  "stdout", sys.stdout, ran.raised),
            files |-> [f \in DOMAIN files |-> ran.files[f]],
            out |-> ran.files["f_stdout"],
            err |-> ran.files["f_stderr"],
            evald |-> ran.evald,
            done |-> ran.done] : ran \in {Run(code_obj, 1, started)} } : TRUE

\* ------------------------------------------------------------------------
\* Request Audit Logger: RequestLogger
\* ------------------------------------------------------------------------

\* A caller context: shape is the Python type of the object ("None",
\* "dict", "str", "int"), empty says whether it is falsy ({}, "", 0), and
\* user is what its "user" entry holds.  A user entry has the shape
\* "missing" when the key is absent; email is Unbound when that key is
\* absent.
UserEntry(shape, email) == [shape |-> shape, email |-> email]

NoUser == UserEntry("missing", Unbound)

ContextOf(shape, empty, user) == [shape |-> shape, empty |-> empty, user |-> user]

\* Caller contexts handed to the operations: the service is registered with
\* require_context, so the transport injects a mapping whose "user" entry
\* holds the caller's email.
Contexts ==
    { ContextOf("dict", FALSE, UserEntry("dict", StrV("ada@lab.org"))) }

\* Every shape of context an operation can be called with.
ContextShapes ==
    Contexts \cup
    { ContextOf("None", TRUE, NoUser),                          \* None
      ContextOf("dict", TRUE, NoUser),                          \* {}
      ContextOf("dict", FALSE, NoUser),                         \* {"id": "u1"}
      ContextOf("dict", FALSE, UserEntry("None", Unbound)),     \* {"user": None}
      ContextOf("dict", FALSE, UserEntry("str", Unbound)),      \* {"user": "ada"}
      ContextOf("dict", FALSE, UserEntry("dict", Unbound)),     \* {"user": {}}
      ContextOf("dict", FALSE, UserEntry("dict", IntV(7))),     \* {"user": {"email": 7}}
      ContextOf("dict", FALSE, UserEntry("dict", NoneV)),       \* {"user": {"email": None}}
      ContextOf("str", TRUE, NoUser),                           \* ""
      ContextOf("str", FALSE, NoUser),                          \* "ada@lab.org"
      ContextOf("int", FALSE, NoUser) }                         \* 42

\* `if context:`
Truthy(context) == context.shape # "None" /\ ~context.empty

\* Variant: the request id is a fixed token instead of a fresh uuid4.
create_fixed_id(method, context, fresh) ==
    IF Truthy(context) /\ context.shape # "dict"
    THEN [raised |-> [kind |-> "AttributeError",
                      msg |-> "'" \o context.shape \o "' object has no attribute 'get'"],
          request_id |-> 0, user_email |-> "", method |-> ""]
    ELSE LET user == context.user
             email == IF user.email = Unbound THEN StrV("Anonymous") ELSE user.email
             user_email ==
                 IF Truthy(context) /\ user.shape = "dict" /\ email.t = "str"
                 THEN email.s
                 ELSE "Anonymous"
         IN [raised |-> NoExc, request_id |-> 1, user_email |-> user_email,
             method |-> method]

\* RequestLogger.create: the identity defaults to "Anonymous"; request_id is
\* a fresh uuid4, modelled by the next unused number.  context.get exists
\* on a mapping only: on any other truthy object the attribute lookup
\* raises and no RequestLogger is made.
create(method, context, fresh) ==
    IF Truthy(context) /\ context.shape # "dict"
    THEN [raised |-> [kind |-> "AttributeError",
                      msg |-> "'" \o context.shape \o "' object has no attribute 'get'"],
          request_id |-> 0, user_email |-> "", method |-> ""]
    ELSE LET user == context.user
             \* user.get("email", "Anonymous")
             email == IF user.email = Unbound THEN StrV("Anonymous") ELSE user.email
             user_email ==
                 IF Truthy(context) /\ user.shape = "dict" /\ email.t = "str"
                 THEN email.s
                 ELSE "Anonymous"
         IN [raised |-> NoExc, request_id |-> fresh, user_email |-> user_email,
             method |-> method]

NoEntry == [id |-> 0, user |-> "", method |-> "", status |-> "", message |-> ""]

\* The log_entry dict of RequestLogger.log (timestamp, detail and the
\* dataset fields are left out).
log_entry(call, status, message) ==
    [id |-> call.request_id, user |-> call.user_email, method |-> call.method,
     status |-> status, message |-> message]

\* The module-level `logger` is usable while the global still names the Logger.
LoggerOk(env) == env["logger"] = ObjV("Logger")

LoggerFault == [kind |-> "AttributeError",
                msg |-> "'NoneType' object has no attribute 'info'"]

IdleCall ==
    [pc |-> "idle", context |-> ContextOf("None", TRUE, NoUser),
     request_id |-> 0, user_email |-> "", method |-> "",
     code |-> <<>>, code_obj |-> <<>>, capture_result |-> FALSE,
     retval |-> "", exc |-> NoExc, cont |-> "", pending |-> NoEntry,
     ran |-> FALSE, out |-> "", err |-> "", evald |-> <<>>, done |-> 0,
     fault |-> NoExc]

\* An exception leaves run_python: the call ends without a return value.
Raises(call, exc) ==
    [call EXCEPT !.pc = "raised", !.exc = exc, !.retval = "", !.cont = "",
                 !.pending = NoEntry]

\* Control returns from `await self.log(...)` to the caller's next line;
\* after the terminal event that line is the return statement.
Resume(call, cont) ==
    [call EXCEPT !.pc = IF cont = "return" THEN "returned" ELSE cont,
                 !.cont = "", !.pending = NoEntry]

\* A sink holds the entries it received, in order; the model files them by
\* the slot of the call that sent them and follows them until the call's
\* outcome is handed over.
Sunk(sink, c, entry) == [sink EXCEPT ![c] = Append(@, entry)]

\* logger.warning / logger.exception: one more record of that kind.
Warned(warns, c) == [warns EXCEPT ![c] = @ + 1]

\* RequestLogger.log up to the await: the entry goes to the local logger;
\* with a server connected the coroutine then suspends in log_event.
log(c, call, env, status, message, cont, local, warns) ==
    IF ~LoggerOk(env)
    THEN [call |-> Raises(call, LoggerFault), local |-> local, warns |-> warns]
    ELSE LET entry == log_entry(call, status, message)
             server == env["_hypha_server"]
         IN CASE server = NoneV ->
                    [call |-> Resume(call, cont), local |-> Sunk(local, c, entry),
                     warns |-> warns]
              [] server = ObjV("server") ->
                    [call |-> [call EXCEPT !.pc = "await", !.cont = cont,
                                           !.pending = entry],
                     local |-> Sunk(local, c, entry), warns |-> warns]
              [] OTHER ->
                    \* log_event is missing on the rebound global: the
                    \* AttributeError is caught and warned about
                    [call |-> Resume(call, cont), local |-> Sunk(local, c, entry),
                     warns |-> Warned(warns, c)]

\* DATASET_DESCRIPTION is not set in the service's process environment.
DefaultDescription == StrV("No description provided.")

\* The f-string get_docs returns, read from the module's globals when the
\* return statement runs.
docs(env) ==
    "This server allows you to interact with a dataset by running\n"
    \o "code in the `run_python` tool.\n\n"
    \o "The dataset is mounted in /data.\n\n"
    \o "Here's the description of the dataset:\n"
    \o "<START OF DATASET DESCRIPTION>\n"
    \o Str(env["dataset_description"]) \o "\n"
    \o "<END OF DATASET DESCRIPTION>\n"

\* traceback.format_exc() for the exception in flight.
format_exc(exc) ==
    "Traceback (most recent call last):\n"
    \o "  File \"<agent-code>\", in <module>\n"
    \o exc.kind \o ": " \o exc.msg \o "\n"

\* ------------------------------------------------------------------------
\* State
\* ------------------------------------------------------------------------

VARIABLES
    environment,  \* the shared namespace: globals() of the module
    sys,          \* sys.stdout / sys.stderr of the process
    files,        \* text written to the real standard streams
    calls,        \* the run_python coroutines, by slot
    localSink,    \* "::REQ::" entries written to the local logger
    remoteSink,   \* entries delivered to the hypha server's log_event
    warnings,     \* warning / exception records written to the local logger
    nextId,       \* number of request ids generated so far
    failures,     \* number of log_event calls that have failed
    running       \* the call that holds the event loop, 0 when it is idle

vars == <<environment, sys, files, calls, localSink, remoteSink, warnings,
          nextId, failures, running>>

Init ==
    /\ environment = [n \in Names |->
                        CASE n = "logger" -> ObjV("Logger")
                          [] n = "_hypha_server" -> ObjV("server")
                          [] n = "dataset_description" -> DefaultDescription
                          [] OTHER -> Unbound]
    /\ sys = RealStreams
    /\ files = [f \in {"__stdout__", "__stderr__"} |-> ""]
    /\ calls = [c \in Slots |-> IdleCall]
    /\ localSink = [c \in Slots |-> <<>>]
    /\ remoteSink = [c \in Slots |-> <<>>]
    /\ warnings = [c \in Slots |-> 0]
    /\ nextId = 0
    /\ failures = 0
    /\ running = 0

\* Variant: the loop is given up after every stretch of a call.
Holder_released(c, call) == 0

\* The call keeps the event loop unless it suspended or ended.
Holder(c, call) == IF call.pc \in {"parse", "exec", "docs"} THEN c ELSE 0

\* ------------------------------------------------------------------------
\* run_python, one action per stretch between two suspension points
\* ------------------------------------------------------------------------

\* Lines 199-200: a request arrives; the logger is created and "processing"
\* is logged.
Call(c, code, context) ==
    /\ running = 0
    /\ calls[c].pc = "idle"
    /\ \A b \in Slots : b < c => calls[b].pc # "idle"
    /\ nextId < MaxRequests
    /\ LET req == create("run_python", context, nextId + 1)
           opened == [IdleCall EXCEPT !.context = context,
                                      !.request_id = req.request_id,
                                      !.user_email = req.user_email,
                                      !.method = req.method,
                                      !.code = code]
       IN \E r \in {IF req.raised # NoExc
                     THEN [call |-> Raises(opened, req.raised), local |-> localSink,
                           warns |-> warnings]
                     ELSE log(c, opened, environment, "processing", "Request received",
                              "parse", localSink, warnings)} :
            /\ calls' = [calls EXCEPT ![c] = r.call]
            /\ localSink' = r.local
            /\ warnings' = r.warns
            /\ running' = Holder(c, r.call)
    /\ nextId' = nextId + 1
    /\ UNCHANGED <<environment, sys, files, remoteSink, failures>>

\* Lines 100-103: log_event completes; the entry reached the remote sink.
RemoteOk(c) ==
    /\ running = 0
    /\ calls[c].pc = "await"
    /\ remoteSink' = Sunk(remoteSink, c, calls[c].pending)
    /\ \E resumed \in {Resume(calls[c], calls[c].cont)} :
          /\ calls' = [calls EXCEPT ![c] = resumed]
          /\ running' = Holder(c, resumed)
    /\ UNCHANGED <<environment, sys, files, localSink, warnings, nextId, failures>>

\* Lines 104-105: log_event raises; the exception is caught and a warning
\* is written with the module's logger.
RemoteFail(c) ==
    /\ running = 0
    /\ calls[c].pc = "await"
    /\ failures < MaxRemoteFailures
    /\ failures' = failures + 1
    /\ \E resumed \in {IF LoggerOk(environment)
                        THEN Resume(calls[c], calls[c].cont)
                        ELSE Raises(calls[c], LoggerFault)} :
          /\ calls' = [calls EXCEPT ![c] = resumed]
          /\ running' = Holder(c, resumed)
          /\ warnings' = IF LoggerOk(environment) THEN Warned(warnings, c) ELSE warnings
    /\ UNCHANGED <<environment, sys, files, localSink, remoteSink, nextId>>

\* Lines 205-212: what run_python does with the outcome of
\* parse_and_compile_code.
AfterParse(c, call, unit, env, local, warns) ==
    IF unit.raised # NoExc
    THEN IF LoggerOk(env)
         THEN log(c, [call EXCEPT !.retval = "SyntaxError: " \o unit.raised.msg], env,
                  "error", "Syntax Error", "return", local, Warned(warns, c))
         ELSE [call |-> Raises(call, LoggerFault), local |-> local, warns |-> warns]
    ELSE log(c, [call EXCEPT !.code_obj = unit.code_obj,
                          !.capture_result = unit.capture_result],
             env, "executing", "Executing code...", "exec", local, warns)

\* Lines 203-212: parse and compile; a SyntaxError is warned about, logged
\* as "error" and returned as text, otherwise "executing" is logged.
Parse(c) ==
    /\ running = c
    /\ calls[c].pc = "parse"
    /\ \E unit \in {parse_and_compile_code(calls[c].code)} :
         \E r \in {AfterParse(c, calls[c], unit, environment, localSink, warnings)} :
            /\ calls' = [calls EXCEPT ![c] = r.call]
            /\ localSink' = r.local
            /\ warnings' = r.warns
            /\ running' = Holder(c, r.call)
    /\ UNCHANGED <<environment, sys, files, remoteSink, nextId, failures>>

\* Lines 219-226: what run_python does with the outcome res of execute_code.
AfterSandbox(c, call, res, local, warns) ==
    LET seen == [call EXCEPT !.ran = TRUE, !.out = res.out, !.err = res.err,
                             !.evald = res.evald, !.done = res.done,
                             !.fault = res.raised]
        error_msg == "Error: " \o format_exc(res.raised)
    IN IF res.raised = NoExc
       THEN log(c, [seen EXCEPT !.retval = res.output], res.environment,
                "completed", "Request completed successfully", "return",
                local, warns)
       ELSE IF res.raised.kind \in ExceptionKinds
       THEN IF LoggerOk(res.environment)
            THEN log(c, [seen EXCEPT !.retval = error_msg], res.environment,
                     "error", "Execution Error", "return", local, Warned(warns, c))
            ELSE [call |-> Raises(seen, LoggerFault), local |-> local, warns |-> warns]
       ELSE [call |-> Raises(seen, res.raised), local |-> local, warns |-> warns]

\* Lines 213-225: the sandbox runs the unit against the shared namespace.
\* An Exception is formatted, logged as "error" and returned as text; any
\* other exception class is not caught by `except Exception`; without a
\* fault "completed" is logged and the output returned.
Sandbox(c) ==
    /\ running = c
    /\ calls[c].pc = "exec"
    /\ \E res \in {execute_code(calls[c].code_obj, environment,
                                 calls[c].capture_result, sys, files)} :
         \E r \in {AfterSandbox(c, calls[c], res, localSink, warnings)} :
            /\ environment' = res.environment
            /\ sys' = res.sys
            /\ files' = res.files
            /\ calls' = [calls EXCEPT ![c] = r.call]
            /\ localSink' = r.local
            /\ warnings' = r.warns
            /\ running' = Holder(c, r.call)
    /\ UNCHANGED <<remoteSink, nextId, failures>>

\* ------------------------------------------------------------------------
\* get_docs
\* ------------------------------------------------------------------------

\* Lines 234-235: a get_docs request arrives; the logger is created and
\* "completed" is logged.
GetDocs(c, context) ==
    /\ running = 0
    /\ calls[c].pc = "idle"
    /\ \A b \in Slots : b < c => calls[b].pc # "idle"
    /\ nextId < MaxRequests
    /\ LET req == create("get_docs", context, nextId + 1)
           opened == [IdleCall EXCEPT !.context = context,
                                      !.request_id = req.request_id,
                                      !.user_email = req.user_email,
                                      !.method = req.method]
       IN \E r \in {IF req.raised # NoExc
                     THEN [call |-> Raises(opened, req.raised), local |-> localSink,
                           warns |-> warnings]
                     ELSE log(c, opened, environment, "completed",
                              "Request completed successfully", "docs",
                              localSink, warnings)} :
            /\ calls' = [calls EXCEPT ![c] = r.call]
            /\ localSink' = r.local
            /\ warnings' = r.warns
            /\ running' = Holder(c, r.call)
    /\ nextId' = nextId + 1
    /\ UNCHANGED <<environment, sys, files, remoteSink, failures>>

\* Lines 237-246: the document is built and returned.
Docs(c) ==
    /\ running = c
    /\ calls[c].pc = "docs"
    /\ calls' = [calls EXCEPT ![c] = [@ EXCEPT !.pc = "returned",
                                               !.retval = docs(environment)]]
    /\ running' = 0
    /\ UNCHANGED <<environment, sys, files, localSink, remoteSink, warnings,
                   nextId, failures>>

\* The outcome of an ended call (the returned string, or the exception that
\* left the operation) goes to the caller and the coroutine is gone.
Deliver(c) ==
    /\ running = 0
    /\ calls[c].pc \in {"returned", "raised"}
    /\ calls' = [calls EXCEPT ![c] = IdleCall]
    /\ localSink' = [localSink EXCEPT ![c] = <<>>]
    /\ remoteSink' = [remoteSink EXCEPT ![c] = <<>>]
    /\ warnings' = [warnings EXCEPT ![c] = 0]
    /\ UNCHANGED <<environment, sys, files, nextId, failures, running>>

Next ==
    \/ \E c \in Slots, code \in Sources, context \in Contexts : Call(c, code, context)
    \/ \E c \in Slots : RemoteOk(c)
    \/ \E c \in Slots : RemoteFail(c)
    \/ \E c \in Slots : Parse(c)
    \/ \E c \in Slots : Sandbox(c)
    \/ \E c \in Slots, context \in Contexts : GetDocs(c, context)
    \/ \E c \in Slots : Docs(c)
    \/ \E c \in Slots : Deliver(c)

Spec == Init /\ [][Next]_vars

\* The event loop runs every coroutine that is ready (its synchronous
\* stretches Parse, Sandbox, Docs) and hands every outcome to its caller.
\* Nothing makes a request arrive, and nothing makes the hypha server
\* answer a log_event call: RemoteOk and RemoteFail carry no fairness.
FairSpec ==
    /\ Spec
    /\ \A c \in Slots :
          /\ WF_vars(Parse(c))
          /\ WF_vars(Sandbox(c))
          /\ WF_vars(Docs(c))
          /\ WF_vars(Deliver(c))

\* The service called with the source texts of SectionSources.
SectionNext ==
    \/ \E c \in Slots, code \in SectionSources, context \in Contexts :
          Call(c, code, context)
    \/ \E c \in Slots : RemoteOk(c)
    \/ \E c \in Slots : RemoteFail(c)
    \/ \E c \in Slots : Parse(c)
    \/ \E c \in Slots : Sandbox(c)
    \/ \E c \in Slots : Deliver(c)

SectionSpec == Init /\ [][SectionNext]_vars

\* The service called with every shape of caller context.
ContextNext ==
    \/ \E c \in Slots, context \in ContextShapes : Call(c, <<"x = 5">>, context)
    \/ \E c \in Slots : RemoteOk(c)
    \/ \E c \in Slots : RemoteFail(c)
    \/ \E c \in Slots : Parse(c)
    \/ \E c \in Slots : Sandbox(c)
    \/ \E c \in Slots, context \in ContextShapes : GetDocs(c, context)
    \/ \E c \in Slots : Docs(c)
    \/ \E c \in Slots : Deliver(c)

ContextSpec == Init /\ [][ContextNext]_vars

TypeOK ==
    /\ running \in Slots \cup {0}
    /\ nextId \in 0..MaxRequests
    /\ \A c \in Slots :
          calls[c].pc \in {"idle", "await", "parse", "exec", "docs", "returned", "raised"}

\* ------------------------------------------------------------------------
\* Vocabulary of the properties
\* ------------------------------------------------------------------------

\* The call of slot c has ended: it returned its string or raised.
Ended(c) == calls[c].pc \in {"returned", "raised"}

\* The statuses of the entries a sink holds for one call, in order.
StatusesOf(entries) == [i \in 1..Len(entries) |-> entries[i].status]

Terminal == {"completed", "error"}

\* The full event sequences of a call.
Lifecycles ==
    { <<"processing", "error">>,
      <<"processing", "executing", "completed">>,
      <<"processing", "executing", "error">> }

StartsWith(s, p) == Len(s) >= Len(p) /\ SubSeq(s, 1, Len(p)) = p

Contains(s, p) ==
    \E i \in 1..(Len(s) - Len(p) + 1) : SubSeq(s, i, i + Len(p) - 1) = p

IsPrefix(p, q) == Len(p) <= Len(q) /\ SubSeq(q, 1, Len(p)) = p

EndsWith(s, p) == Len(s) >= Len(p) /\ SubSeq(s, Len(s) - Len(p) + 1, Len(s)) = p

\* The source text does not parse or does not compile.
Invalid(code) == parse_and_compile_code(code).raised # NoExc

\* The source text parses and its final top-level statement is a bare
\* expression.
TrailingExpr(code) == EndsInExpr(ast_parse(code).body)

\* ------------------------------------------------------------------------
\* C1
\* ------------------------------------------------------------------------

\* C1: the audit events of a call form a non-empty sequence that starts
\* with "processing", has "executing" (when present) before the terminal
\* event, and, once the call has ended, closes with exactly one terminal
\* event ("completed" or "error").
C1_AuditLifecycle ==
    \A c \in Slots :
        LET ev == StatusesOf(localSink[c])
        IN calls[c].method = "run_python" =>
              /\ \E full \in Lifecycles : IsPrefix(ev, full)
              /\ Len(ev) > 0
              /\ Ended(c) => ev \in Lifecycles

\* ------------------------------------------------------------------------
\* C2
\* ------------------------------------------------------------------------

\* C2: run_python never raises to its caller: every call that ends has
\* returned a string and has emitted a terminal audit event.
C2_NeverRaises ==
    \A c \in Slots :
        (calls[c].method = "run_python" /\ Ended(c)) =>
            /\ calls[c].pc = "returned"
            /\ Len(localSink[c]) > 0
            /\ localSink[c][Len(localSink[c])].status \in Terminal

\* ------------------------------------------------------------------------
\* C3
\* ------------------------------------------------------------------------

\* C3: a call whose source is syntactically invalid never touches the
\* shared namespace and never reaches the sandbox, and it ends by returning
\* "SyntaxError: " followed by the diagnostic, after the events
\* "processing" and "error" and no others.
C3_SyntaxErrorReply ==
    [][\A c \in Slots :
          (calls'[c] # calls[c] /\ Invalid(calls'[c].code)) =>
              /\ environment' = environment
              /\ ~calls'[c].ran
              /\ calls'[c].pc \in {"returned", "raised"} =>
                    /\ calls'[c].pc = "returned"
                    /\ calls'[c].retval = "SyntaxError: "
                          \o parse_and_compile_code(calls'[c].code).raised.msg
                    /\ StatusesOf(localSink'[c]) = <<"processing", "error">>]_vars

\* ------------------------------------------------------------------------
\* C4
\* ------------------------------------------------------------------------

\* The names bound by the first k statements of a compiled unit.
BoundBy(code_obj, k) ==
    {code_obj[i].target : i \in {j \in 1..k : code_obj[j].k = "Assign"}}

\* C4: when the script of a call raises in the sandbox, the fault is caught:
\* the call goes on to return a string that begins with "Error: " and names
\* the fault kind in its trace text, its terminal event is "error", and the
\* names the script bound before the fault are bound in the shared namespace.
C4_RuntimeFaultReply ==
    [][\A c \in Slots :
          (calls[c].pc = "exec" /\ calls'[c].fault # NoExc) =>
              /\ calls'[c].pc # "raised"
              /\ StartsWith(calls'[c].retval, "Error: ")
              /\ Contains(calls'[c].retval, calls'[c].fault.kind)
              /\ Len(localSink'[c]) > 0
              /\ localSink'[c][Len(localSink'[c])].status = "error"
              /\ \A n \in BoundBy(calls[c].code_obj, calls'[c].done) :
                    environment'[n] # Unbound]_vars

\* ------------------------------------------------------------------------
\* C5
\* ------------------------------------------------------------------------

\* The expressions that the statements of a parsed source evaluate, in order.
ExpressionsOf(body) ==
    LET evaluating == SelectSeq(body, LAMBDA stmt : stmt.k \in {"Expr", "Assign"})
    IN [i \in 1..Len(evaluating) |-> evaluating[i].value]

\* The call of slot c returned the assembled output of a run without fault.
ReturnedOutput(c) ==
    calls[c].pc = "returned" /\ calls[c].ran /\ calls[c].fault = NoExc

\* C5 as stated: whenever a source that ends in a bare expression has run
\* and the call returned its output, the returned string has a Result
\* section, whatever value the expression gave.
C5_ResultForEveryValue ==
    \A c \in Slots :
        (ReturnedOutput(c) /\ TrailingExpr(calls[c].code)) =>
            Contains(calls[c].retval, "Result: ")

\* C5 amended: whenever a source that ends in a bare expression has run and
\* the call returned its output, the statements' expressions were each
\* evaluated once, in source order, and the returned string closes with the
\* Result section of the trailing expression's value, unless that value is
\* None, in which case there is no Result section.
C5_ResultUnlessNone ==
    \A c \in Slots :
        (ReturnedOutput(c) /\ TrailingExpr(calls[c].code)) =>
            LET ev == calls[c].evald
                value == ev[Len(ev)].v
            IN /\ [i \in 1..Len(ev) |-> ev[i].e]
                    = ExpressionsOf(ast_parse(calls[c].code).body)
               /\ value # NoneV =>
                    EndsWith(calls[c].retval, "Result: " \o Repr(value) \o "\n")
               /\ value = NoneV => ~Contains(calls[c].retval, "Result: ")

\* A call bound x, and a later call "print('hi'); x" returned the output
\* and the value.
C5_Witness ==
    \E c \in Slots :
        /\ ReturnedOutput(c)
        /\ calls[c].code = <<"print('hi')", "x">>
        /\ calls[c].retval = "Output:\nhi\n\nResult: 5\n"

\* ------------------------------------------------------------------------
\* C6
\* ------------------------------------------------------------------------

\* C6: when the final top-level statement of the source is not a bare
\* expression (or the source is empty or invalid), the unit that ran is the
\* parsed tree unchanged and the returned string has no Result section,
\* whatever the reserved binding holds.
C6_NoResultWithoutTrailingExpr ==
    \A c \in Slots :
        (/\ calls[c].method = "run_python"
         /\ calls[c].pc = "returned"
         /\ ~TrailingExpr(calls[c].code)) =>
            /\ calls[c].ran => calls[c].code_obj = ast_parse(calls[c].code).body
            /\ ~Contains(calls[c].retval, "Result: ")

\* "x = 5" returned the empty string while an earlier call's captured value
\* was still bound to _ai_result.
C6_Witness ==
    \E c \in Slots :
        /\ calls[c].pc = "returned"
        /\ calls[c].ran
        /\ calls[c].code = <<"x = 5">>
        /\ calls[c].retval = ""
        /\ environment["_ai_result"] \notin {Unbound, NoneV}

\* ------------------------------------------------------------------------
\* C7
\* ------------------------------------------------------------------------

\* C7: whenever a call returns after its script ran, all the text the
\* script wrote to the sandboxed standard output is in an Output section
\* of the returned string, also when a runtime fault stopped the script.
C7_OutputVerbatim ==
    \A c \in Slots :
        (calls[c].pc = "returned" /\ calls[c].ran /\ calls[c].out # "") =>
            Contains(calls[c].retval, "Output:\n" \o calls[c].out)

\* ------------------------------------------------------------------------
\* C8
\* ------------------------------------------------------------------------

Max(S) == CHOOSE m \in S : \A o \in S : m >= o

\* The calls whose sandbox step is the step being taken.
SandboxStepOf(c) == calls[c].pc = "exec" /\ calls'[c].pc # "exec"

\* C8: the shared namespace changes only in a sandbox step, and there
\* name by name: a name the script bound holds the value of the script's
\* last completed binding of it, every other name keeps its value; and a
\* name the script reads gives the value the namespace held when the step
\* began, as left by the earlier calls.
C8_NamespacePersists ==
    [][\A n \in Names :
          LET runs == {c \in Slots : SandboxStepOf(c)}
          IN /\ runs = {} => environment'[n] = environment[n]
             /\ \A c \in runs :
                  LET code_obj == calls[c].code_obj
                      binds == {i \in 1..calls'[c].done :
                                   /\ code_obj[i].k = "Assign"
                                   /\ code_obj[i].target = n}
                      reads == {i \in 1..Len(calls'[c].evald) :
                                   /\ calls'[c].evald[i].e.k = "Name"
                                   /\ calls'[c].evald[i].e.id = n}
                  IN /\ binds = {} => environment'[n] = environment[n]
                     /\ (binds # {} /\ code_obj[Max(binds)].value.k = "Constant") =>
                            environment'[n] = code_obj[Max(binds)].value.v
                     /\ \A i \in reads :
                            calls'[c].evald[i].v = environment[n]]_vars

\* One call bound x = 5; a later call read x and returned its value.
C8_Witness ==
    \E c \in Slots :
        /\ calls[c].pc = "returned"
        /\ calls[c].code = <<"print('hi')", "x">>
        /\ calls[c].request_id > 1
        /\ EndsWith(calls[c].retval, "Result: 5\n")
        /\ environment["x"] = IntV(5)

\* ------------------------------------------------------------------------
\* C9
\* ------------------------------------------------------------------------

\* C9: between the steps of the calls sys.stdout and sys.stderr are the
\* process's real streams, and no script text has been written to them.
C9_StreamsRestored ==
    /\ sys = RealStreams
    /\ \A f \in DOMAIN files : files[f] = ""

\* A script wrote to the redirected stdout and then raised; the streams
\* are the real ones again.
C9_Witness ==
    /\ sys = RealStreams
    /\ \E c \in Slots :
          calls[c].ran /\ calls[c].fault # NoExc /\ calls[c].out = "hi\n"

\* ------------------------------------------------------------------------
\* C10
\* ------------------------------------------------------------------------

\* The step being taken is a failed forward of the call of slot c.
RemoteFailStepOf(c) ==
    calls[c].pc = "await" /\ failures' # failures /\ calls'[c] # calls[c]

\* C10: a failed forward to the remote sink is invisible to the call: the
\* entry is already in the local sink, it is not sent again, and the call
\* goes on exactly as it does after a successful forward, to the same next
\* event and the same returned string.  (A call that has events still to
\* log while the module's logger is gone returns no string either way: it
\* ends with the same AttributeError now or at its next log record.)
C10_RemoteFailureInvisible ==
    [][\A c \in Slots :
          RemoteFailStepOf(c) =>
              /\ Len(localSink[c]) > 0
              /\ localSink[c][Len(localSink[c])] = calls[c].pending
              /\ localSink' = localSink
              /\ remoteSink' = remoteSink
              /\ \/ calls'[c] = Resume(calls[c], calls[c].cont)
                 \/ /\ calls[c].cont \in {"parse", "exec"}
                    /\ ~LoggerOk(environment)
                    /\ calls'[c].pc = "raised"]_vars

\* ------------------------------------------------------------------------
\* C11
\* ------------------------------------------------------------------------

\* C11: the forward to the remote sink never blocks the response: a
\* run_python call that has started ends (its string is returned), whether
\* or not the hypha server ever answers the log_event calls.
C11_RemoteNeverBlocks ==
    \A c \in Slots :
        (calls[c].method = "run_python" /\ calls[c].pc = "await") ~> Ended(c)

\* ------------------------------------------------------------------------
\* C12
\* ------------------------------------------------------------------------

\* The document for the configured dataset description.
FixedDocument == docs([dataset_description |-> DefaultDescription])

\* C12: every get_docs call ends by returning the document of the
\* configured description, whatever run_python calls came before, after
\* exactly one audit event, "completed"; and the steps of a get_docs call
\* leave the shared namespace as it is.
C12_DocsFixed ==
    \A c \in Slots :
        (calls[c].method = "get_docs" /\ Ended(c)) =>
            /\ calls[c].pc = "returned"
            /\ calls[c].retval = FixedDocument
            /\ StatusesOf(localSink[c]) = <<"completed">>

\* ------------------------------------------------------------------------
\* C13
\* ------------------------------------------------------------------------

\* One section of the result string, closed by a newline; nothing for an
\* absent part.
Section(present, text) == IF present THEN text \o "\n" ELSE ""

\* The value the run of slot c captured: the value of the trailing
\* expression, None when there was no trailing expression.
CapturedValue(c) ==
    IF calls[c].capture_result /\ Len(calls[c].evald) > 0
    THEN calls[c].evald[Len(calls[c].evald)].v
    ELSE NoneV

\* C13: the string returned after a run without fault is determined by
\* the captured stdout text, stderr text and value: the Output section,
\* then the Stderr section, then the Result section, each there exactly
\* when its part is (non-empty text, a value other than None), joined by
\* newlines and closed by one; the empty string when there is no section.
C13_AssembledSections ==
    \A c \in Slots :
        ReturnedOutput(c) =>
            calls[c].retval =
                Section(calls[c].out # "", "Output:\n" \o calls[c].out)
                \o Section(calls[c].err # "", "Stderr:\n" \o calls[c].err)
                \o Section(CapturedValue(c) # NoneV,
                           "Result: " \o Repr(CapturedValue(c)))

\* A script wrote to both streams and ended in "1 + 1": all three sections.
C13_Witness ==
    \E c \in Slots :
        /\ ReturnedOutput(c)
        /\ calls[c].retval = "Output:\nhi\n\nStderr:\nwarn\n\nResult: 2\n"

\* ------------------------------------------------------------------------
\* C14
\* ------------------------------------------------------------------------

\* The context is a mapping whose "user" entry is a mapping whose "email"
\* entry is a string.
WellFormed(context) ==
    /\ context.shape = "dict"
    /\ context.user.shape = "dict"
    /\ context.user.email.t = "str"

\* C14: whatever the shape of the caller context, the call opens its
\* request record, and the record's identity is the email of a well-formed
\* context and "Anonymous" for every other context.
C14_ContextFallback ==
    \A c \in Slots :
        calls[c].pc # "idle" =>
            /\ calls[c].request_id # 0
            /\ calls[c].user_email =
                  IF WellFormed(calls[c].context)
                  THEN calls[c].context.user.email.s
                  ELSE "Anonymous"

\* ------------------------------------------------------------------------
\* C15
\* ------------------------------------------------------------------------

\* The audit entries of the call of slot c that exist in the state: those
\* in the two sinks and the one being forwarded.
EntriesOf(sinkL, sinkR, call) ==
    {sinkL[i] : i \in 1..Len(sinkL)} \cup {sinkR[i] : i \in 1..Len(sinkR)}
    \cup (IF call.pc = "await" THEN {call.pending} ELSE {})

\* C15: from the moment a call opens its request record until its outcome
\* is handed over, the record's id, identity and method stay as they were
\* set; every audit entry of the call carries exactly these three; the id
\* a call opens with was never used before; and entries of two calls in
\* flight never carry the same id.
C15_RecordCorrelatesEvents ==
    [][/\ \A c \in Slots :
            /\ (calls[c].pc # "idle" /\ calls'[c].pc # "idle") =>
                  /\ calls'[c].request_id = calls[c].request_id
                  /\ calls'[c].user_email = calls[c].user_email
                  /\ calls'[c].method = calls[c].method
            /\ (calls[c].pc = "idle" /\ calls'[c].request_id # 0) =>
                  calls'[c].request_id > nextId
            /\ calls'[c].request_id <= nextId'
            /\ \A entry \in EntriesOf(localSink'[c], remoteSink'[c], calls'[c]) :
                  /\ entry.id = calls'[c].request_id
                  /\ entry.user = calls'[c].user_email
                  /\ entry.method = calls'[c].method
       /\ \A c1, c2 \in Slots :
            c1 # c2 =>
               \A e1 \in EntriesOf(localSink'[c1], remoteSink'[c1], calls'[c1]),
                  e2 \in EntriesOf(localSink'[c2], remoteSink'[c2], calls'[c2]) :
                     e1.id # e2.id]_vars

\* Two calls of different callers and methods are in flight, each with
\* entries in both sinks.
C15_Witness ==
    \E c1, c2 \in Slots :
        /\ calls[c1].method = "run_python"
        /\ calls[c2].method = "get_docs"
        /\ calls[c1].user_email = "ada@lab.org"
        /\ calls[c2].user_email = "Anonymous"
        /\ Len(localSink[c1]) >= 2
        /\ Len(remoteSink[c1]) >= 1
        /\ Len(remoteSink[c2]) >= 1

\* ------------------------------------------------------------------------
\* C16
\* ------------------------------------------------------------------------

\* The module globals the service itself works with.
ServiceNames == {"logger", "_hypha_server", "dataset_description"}

\* C16: whatever names the scripts bind, the globals the service works
\* with keep the values they had when the service started, and every call
\* that ends without a fault of its own script has emitted audit events
\* and returned a string.
C16_ServiceStateIntact ==
    /\ \A n \in ServiceNames :
          environment[n] = CASE n = "logger" -> ObjV("Logger")
                             [] n = "_hypha_server" -> ObjV("server")
                             [] OTHER -> DefaultDescription
    /\ \A c \in Slots :
          (Ended(c) /\ calls[c].fault = NoExc) =>
              (calls[c].pc = "returned" /\ Len(localSink[c]) > 0)

\* ------------------------------------------------------------------------
\* C17
\* ------------------------------------------------------------------------

\* The text that the first k statements of a compiled unit print to fd.
RECURSIVE OwnText(_, _, _)
OwnText(code_obj, k, fd) ==
    IF k = 0 THEN ""
    ELSE OwnText(code_obj, k - 1, fd)
         \o (IF code_obj[k].value.k = "Call" /\ code_obj[k].value.id = fd
             THEN code_obj[k].value.v.s \o "\n"
             ELSE "")

\* The call of slot c is between two suspension points.
MidStretch(c) == calls[c].pc \in {"parse", "exec", "docs"}

\* C17: calls interleave only at the awaits of the audit events: while a
\* call is between two suspension points the next step is its own and no
\* other call moves, so at most one call is ever inside such a stretch.
\* The sandbox step of a call is one step: it starts and ends with the
\* real streams in place, the captured stdout and stderr are exactly what
\* the call's own statements printed, and after a run without fault the
\* reserved binding holds the value of the call's own trailing expression,
\* which is the value the Result section shows.
C17_SandboxAtomic ==
    [][/\ \A c \in Slots :
            MidStretch(c) =>
               /\ calls'[c] # calls[c]
               /\ \A b \in Slots \ {c} : calls'[b] = calls[b]
       /\ Cardinality({c \in Slots : calls'[c].pc \in {"parse", "exec", "docs"}}) <= 1
       /\ \A c \in Slots :
            SandboxStepOf(c) =>
               /\ sys = RealStreams /\ sys' = RealStreams
               /\ calls'[c].out = OwnText(calls[c].code_obj, calls'[c].done, "stdout")
               /\ calls'[c].err = OwnText(calls[c].code_obj, calls'[c].done, "stderr")
               /\ (calls'[c].fault = NoExc /\ calls[c].capture_result) =>
                     LET own == calls'[c].evald[Len(calls'[c].evald)].v
                     IN /\ environment'["_ai_result"] = own
                        /\ (calls'[c].pc # "raised" /\ own # NoneV) =>
                              EndsWith(calls'[c].retval, "Result: " \o Repr(own) \o "\n")]_vars

\* Two calls are in flight at once: one has printed and captured a value
\* of its own in its sandbox step, the other has run its sandbox step too.
C17_Witness ==
    \E c1, c2 \in Slots :
        /\ c1 # c2
        /\ calls[c1].ran /\ calls[c2].ran
        /\ calls[c1].pc = "await" /\ calls[c2].pc = "await"
        /\ calls[c1].err = "warn\n"
        /\ calls[c1].retval = "Stderr:\nwarn\n\nResult: 'hi'\n"
        /\ calls[c2].retval = "Result: 2\n"
====
